---- MODULE Spec2Model ----
(***************************************************************************)
(* YouTubeSubtitleManager: the subtitle timing normaliser (utils.py), the  *)
(* caption resolver (caption_fetch.py), the local transcription engine     *)
(* with its model caches (transcription.py) and the orchestration of       *)
(* process_video / main (app.py, main.py).                                 *)
(*                                                                         *)
(* An SRT text is a sequence of lines (each line stands for the line and   *)
(* its terminating newline).  A line is a record: a text line carries a    *)
(* string, a timing line "A --> B" carries its two timestamp strings.  A   *)
(* timestamp string is the record of its fields: hours, minutes, seconds,  *)
(* the number of fraction digits (0: no ",fff" part) and their value.      *)
(***************************************************************************)
EXTENDS Integers, Sequences, FiniteSets, TLC

VARIABLES
    \* ---- normaliser harness (utils.validate_and_adjust_timings) ----
    nsrt,       \* the srt argument: a sequence of lines
    ngap,       \* the min_gap argument
    npc,        \* "in" -> "once" -> "twice"
    nout,       \* result of the first call
    nout2,      \* result of the call on the first call's output
    \* ---- timestamp harness (utils.ms_to_time, parse_srt_time, time_to_ms) ----
    t_ms,       \* the ms argument of ms_to_time
    t_ts,       \* the timestamp string ms_to_time returned
    t_back,     \* time_to_ms(parse_srt_time(t_ts)), or the ValueError
    t_pc,       \* "in" -> "formatted" -> "parsed"
    \* ---- one run of process_video (app.py) or main (main.py) ----
    has,            \* HAS_FASTER, HAS_WHISPER, HAS_API
    pc,             \* position of the run
    entry,          \* "app": process_video, "main": the CLI
    use_local,      \* use_local_transcription
    source_lang,    \* the requested language
    gc_lang,        \* get_captions: its lang argument
    gc_i,           \* get_captions: index of the provider tried next
    gc_pass,        \* number of get_captions calls made by the run
    gc_ret,         \* get_captions: the value it returns
    srt_content,    \* process_video: srt_content (main: srt)
    actual_source,  \* process_video: actual_source (main: args.source_lang)
    files,          \* files written by the run
    result,         \* how the run ended
    log,            \* the calls the run made, in order
    whisper_models, \* _whisper_models: the sizes it holds
    faster_models,  \* _faster_models
    model_size,     \* transcribe_local: model_size
    audio_path,     \* transcribe_local: "" or the path that produced it
    audio_file,     \* the downloaded audio file, as it is on disk
    temp_dir,       \* the mkdtemp directory of download_audio is on disk
    tl_srt          \* transcribe_local: srt

tvars == <<t_ms, t_ts, t_back, t_pc>>

nvars == <<nsrt, ngap, npc, nout, nout2, tvars>>

reqvars == <<entry, use_local, source_lang>>

gcvars == <<gc_lang, gc_i, gc_pass, gc_ret>>

pvvars == <<srt_content, actual_source, files, result>>

cachevars == <<whisper_models, faster_models>>

tlvars == <<model_size, audio_path, audio_file, temp_dir, tl_srt>>

ovars == <<has, pc, log, reqvars, gcvars, pvvars, cachevars, tlvars>>

vars == <<nvars, ovars>>

----------------------------------------------------------------------------
(* Bounds *)

\* longest input timeline, in blocks
MaxBlocks == 3

\* largest hours field of the ms values given to ms_to_time
MaxHour == 24

----------------------------------------------------------------------------
(* Timestamps and lines *)

Ts(h, m, s, fd, fv) == [h |-> h, m |-> m, s |-> s, fd |-> fd, fv |-> fv]

NoTs == Ts(0, 0, 0, 0, 0)

TextLine(str) == [k |-> "text", s |-> str, start |-> NoTs, end |-> NoTs]

TimingLine(a, b) == [k |-> "timing", s |-> "", start |-> a, end |-> b]

BlankLine == TextLine("")

IsBlank(ln) == ln.k = "text" /\ ln.s = ""

RECURSIVE Pow10(_)
Pow10(n) == IF n = 0 THEN 1 ELSE 10 * Pow10(n - 1)

\* datetime.strptime(ts, "%H:%M:%S,%f") or, failing that, "%H:%M:%S":
\* %H is 0..23, %M and %S 0..59, %f one to six digits; anything else is a
\* ValueError in both formats.
ParseOk(ts) ==
    /\ ts.h \in 0..23
    /\ ts.m \in 0..59
    /\ ts.s \in 0..59
    /\ ts.fd \in 0..6

\* The datetime parse_srt_time returns (ok = FALSE: it raises ValueError).
\* %f pads the digits on the right to microseconds.
parse_srt_time_NoPad(ts) ==
    IF ParseOk(ts)
    THEN [ok |-> TRUE, hour |-> ts.h, minute |-> ts.m, second |-> ts.s,
          microsecond |-> IF ts.fd = 0 THEN 0 ELSE ts.fv]
    ELSE [ok |-> FALSE, hour |-> 0, minute |-> 0, second |-> 0, microsecond |-> 0]

parse_srt_time(ts) ==
    IF ParseOk(ts)
    THEN [ok |-> TRUE, hour |-> ts.h, minute |-> ts.m, second |-> ts.s,
          microsecond |-> IF ts.fd = 0 THEN 0 ELSE ts.fv * Pow10(6 - ts.fd)]
    ELSE [ok |-> FALSE, hour |-> 0, minute |-> 0, second |-> 0, microsecond |-> 0]

time_to_ms(dt) ==
    (dt.hour * 3600 + dt.minute * 60 + dt.second) * 1000 + (dt.microsecond \div 1000)

\* f"{h:02}:{m:02}:{s:02},{ms_rem:03}": the hours field is not reduced
\* modulo 24.
ms_to_time(ms) ==
    Ts(ms \div 3600000,
       (ms % 3600000) \div 60000,
       ((ms % 3600000) % 60000) \div 1000,
       3,
       ((ms % 3600000) % 60000) % 1000)

\* What a reader of an emitted timestamp takes it to mean, in ms.
TsMs(ts) == ts.h * 3600000 + ts.m * 60000 + ts.s * 1000 + ts.fv

----------------------------------------------------------------------------
(* Splitting a text into blocks: srt.strip().split("\n\n") *)

RECURSIVE StripLeft(_)
StripLeft(t) ==
    IF t # <<>> /\ IsBlank(Head(t)) THEN StripLeft(Tail(t)) ELSE t

RECURSIVE StripRight(_)
StripRight(t) ==
    IF t # <<>> /\ IsBlank(t[Len(t)])
    THEN StripRight(SubSeq(t, 1, Len(t) - 1))
    ELSE t

Strip(t) == StripRight(StripLeft(t))

\* The separator "\n\n" is the newline ending line k followed by an empty
\* line k+1: the block ends at k and the next block starts at k+2.  A run of
\* two empty lines therefore leaves an empty first line in the next block.
RECURSIVE SplitFrom(_, _, _)
SplitFrom(t, j, k) ==
    IF k >= Len(t)
    THEN <<SubSeq(t, j, Len(t))>>
    ELSE IF IsBlank(t[k + 1])
         THEN <<SubSeq(t, j, k)>> \o
              (IF k + 2 > Len(t) THEN <<>> ELSE SplitFrom(t, k + 2, k + 2))
         ELSE SplitFrom(t, j, k + 1)

SplitBlocks(t) == IF t = <<>> THEN <<>> ELSE SplitFrom(t, 1, 1)

\* "-->" in b
HasArrow(blk) == \E i \in 1..Len(blk) : blk[i].k = "timing"

RECURSIVE FilterArrow(_)
FilterArrow(bs) ==
    IF bs = <<>> THEN <<>>
    ELSE IF HasArrow(Head(bs))
         THEN <<Head(bs)>> \o FilterArrow(Tail(bs))
         ELSE FilterArrow(Tail(bs))

\* blocks = [b for b in srt.strip().split("\n\n") if "-->" in b]
Blocks(srt) == FilterArrow(SplitBlocks(Strip(srt)))

\* "\n\n".join(out) + "\n"
RECURSIVE JoinBlocks_NoSeparator(_)
JoinBlocks_NoSeparator(out) ==
    IF out = <<>> THEN <<BlankLine>>
    ELSE IF Len(out) = 1 THEN Head(out)
         ELSE Head(out) \o JoinBlocks_NoSeparator(Tail(out))

RECURSIVE JoinBlocks(_)
JoinBlocks(out) ==
    IF out = <<>> THEN <<BlankLine>>
    ELSE IF Len(out) = 1 THEN Head(out)
         ELSE Head(out) \o <<BlankLine>> \o JoinBlocks(Tail(out))

----------------------------------------------------------------------------
(* validate_and_adjust_timings *)

\* fixed minimum duration given to a segment that would end at or before
\* its start
MinDuration == 500

\* start_ms = max(time_to_ms(start_dt), prev_end + min_gap)
AdjustedStart_NoGap(orig_start, prev_end, min_gap) ==
    IF orig_start >= prev_end THEN orig_start ELSE prev_end

AdjustedStart_Always(orig_start, prev_end, min_gap) == prev_end + min_gap

AdjustedStart(orig_start, prev_end, min_gap) ==
    IF orig_start >= prev_end + min_gap THEN orig_start ELSE prev_end + min_gap

\* end_ms = time_to_ms(end_dt); if end_ms <= start_ms: end_ms = start_ms + 500
AdjustedEnd_Strict(orig_end, start_ms) ==
    IF orig_end < start_ms THEN start_ms + MinDuration ELSE orig_end

AdjustedEnd_FixedDuration(orig_end, start_ms) == start_ms + MinDuration

AdjustedEnd(orig_end, start_ms) ==
    IF orig_end <= start_ms THEN start_ms + MinDuration ELSE orig_end

\* "idx, timing, *text = lines", "start_s, end_s = timing.split(' --> ')"
\* and the two parse_srt_time calls succeed
BlockParses(blk) ==
    /\ Len(blk) >= 2
    /\ blk[2].k = "timing"
    /\ parse_srt_time(blk[2].start).ok
    /\ parse_srt_time(blk[2].end).ok

\* The loop over the blocks from block i on, with prev_end as it stands
\* there.  ok = FALSE: the call raised ValueError.
RECURSIVE AdjustBlocks(_, _, _, _)
AdjustBlocks(blocks, i, prev_end, min_gap) ==
    IF i > Len(blocks) THEN [ok |-> TRUE, out |-> <<>>]
    ELSE LET blk == blocks[i] IN
         IF ~BlockParses(blk) THEN [ok |-> FALSE, out |-> <<>>]
         ELSE LET start_ms == AdjustedStart(time_to_ms(parse_srt_time(blk[2].start)),
                                            prev_end, min_gap)
                  end_ms == AdjustedEnd(time_to_ms(parse_srt_time(blk[2].end)), start_ms)
                  new_t == TimingLine(ms_to_time(start_ms), ms_to_time(end_ms))
                  rest == AdjustBlocks(blocks, i + 1, end_ms, min_gap)
              IN IF rest.ok
                 THEN [ok |-> TRUE,
                       out |-> <<(<<blk[1], new_t>> \o SubSeq(blk, 3, Len(blk)))>> \o rest.out]
                 ELSE rest

\* The value returned: ok and the text, or ok = FALSE when the call raises.
validate_and_adjust_timings(srt, min_gap) ==
    LET r == AdjustBlocks(Blocks(srt), 1, 0, min_gap)
    IN IF r.ok THEN [ok |-> TRUE, text |-> JoinBlocks(r.out)]
       ELSE [ok |-> FALSE, text |-> <<>>]

----------------------------------------------------------------------------
(* Inputs of the normaliser harness *)

\* a canonical "HH:MM:SS,mmm" timestamp
T(ms) == ms_to_time(ms)

Cue(idx, a, b, txt) == <<TextLine(idx), TimingLine(a, b), TextLine(txt)>>

\* min_gap values (--min-gap is any integer; the UI default is 100)
Gaps == {100, 0, -1500}

InBlocks ==
    { Cue("1", T(1000), T(2000), "Hello"),
      Cue("2", T(1500), T(3000), "World"),
      Cue("3", T(1500), T(2100), "x"),
      Cue("4", T(2100), T(2100), "x"),
      Cue("5", T(2000), T(1000), "x"),
      Cue("6", T(3000), T(3500), "x"),
      \* last tenth of a second of the 24th hour
      Cue("7", T(86399900), T(86399900), "x"),
      \* "00:00:01" and "00:00:02,5"
      Cue("8", Ts(0, 0, 1, 0, 0), Ts(0, 0, 2, 1, 5), "x"),
      \* "00:00:01,123456"
      Cue("9", Ts(0, 0, 1, 6, 123456), T(1200), "x"),
      \* hours out of range for %H
      Cue("10", Ts(24, 0, 0, 3, 0), Ts(24, 0, 1, 3, 0), "x"),
      \* a block without a timing line
      <<TextLine("WEBVTT")>>,
      \* a block that follows three newlines: its first line is empty
      <<BlankLine, TextLine("11"), TimingLine(T(3000), T(3500)), TextLine("x")>>,
      \* a cue without text
      <<TextLine("12"), TimingLine(T(0), T(0))>>,
      \* two cues with no blank line between them (transcribe_whisper,
      \* transcribe_faster: "".join(lines))
      Cue("1", T(0), T(1000), "a") \o Cue("2", T(500), T(1500), "b") }

SeqsUpTo(S, n) == UNION { [1..k -> S] : k \in 0..n }

\* the text holding the blocks bs, a blank line between two blocks
RECURSIVE TextOf(_)
TextOf(bs) ==
    IF bs = <<>> THEN <<>>
    ELSE IF Len(bs) = 1 THEN Head(bs)
         ELSE Head(bs) \o <<BlankLine>> \o TextOf(Tail(bs))

----------------------------------------------------------------------------
(* Values of a run *)

\* an srt string, with the language of its text and what produced it
Srt(text, lang, by) == [text |-> text, lang |-> lang, by |-> by]

EmptySrt == Srt(<<>>, "", "")

\* "\n": a string of whitespace only
BlankSrt == Srt(<<BlankLine>>, "", "")

\* truth of a Python string, and of its strip()
Truthy(x) == x.text # <<>>

StripTruthy(x) == Strip(x.text) # <<>>

\* requested languages ("en" is the fallback language of app.py and main.py)
Langs == {"fr", "en"}

\* captions as a provider formats them: blocks separated by a blank line
CaptionText ==
    TextOf(<<Cue("1", T(1000), T(2000), "Hello"), Cue("2", T(1500), T(3000), "World")>>)

\* "".join(lines) of transcribe_faster / transcribe_whisper: each segment is
\* f"{i}\n{start} --> {end}\n{text}\n", no blank line between two segments
BackendText == Cue("1", T(0), T(1000), "a") \o Cue("2", T(500), T(1500), "b")

\* "\n".join(srt_blocks) of get_youtube_api_transcript
RemoteText ==
    TextOf(<<Cue("1", T(0), T(1000), "a"), Cue("2", T(500), T(1500), "b")>>)

\* a file on disk
File(exists, size, ext) == [exists |-> exists, size |-> size, ext |-> ext]

NoFile == File(FALSE, 0, "")

\* an entry of the log of calls
Ev(ev, fn, lang, res) == [ev |-> ev, fn |-> fn, lang |-> lang, res |-> res]

\* what one provider call did: the languages it looked up, in order, whether
\* it raised, and the string it returned
Out(lookups, raised, srt) == [lookups |-> lookups, raised |-> raised, srt |-> srt]

ResOf(o) ==
    IF o.raised THEN "raise"
    ELSE IF o.srt.text = <<>> THEN "empty"
    ELSE IF Strip(o.srt.text) = <<>> THEN "blank"
    ELSE "text"

----------------------------------------------------------------------------
(* caption_fetch.py *)

\* list_transcripts may raise; find_transcript([lang]); on NoTranscriptFound
\* find_transcript(['en']), which may raise NoTranscriptFound again; fetch
\* may raise; the formatted text of an empty transcript is blank.
fetch_via_transcript_api_outcomes(lang) ==
    { Out(<<>>, TRUE, EmptySrt),
      Out(<<lang>>, FALSE, Srt(CaptionText, lang, "fetch_via_transcript_api")),
      Out(<<lang>>, FALSE, BlankSrt),
      Out(<<lang>>, TRUE, EmptySrt),
      Out(<<lang, "en">>, FALSE, Srt(CaptionText, "en", "fetch_via_transcript_api")),
      Out(<<lang, "en">>, TRUE, EmptySrt) }

\* yt-dlp --sub-langs "{lang},en": the run may raise (timeout, no binary);
\* a non-zero exit or no .srt file gives ""; otherwise the first .srt file
\* of the directory listing, in either language, whatever it holds.
fetch_via_ytdlp_outcomes(lang) ==
    { Out(<<>>, TRUE, EmptySrt),
      Out(<<lang, "en">>, TRUE, EmptySrt),
      Out(<<lang, "en">>, FALSE, EmptySrt),
      Out(<<lang, "en">>, FALSE, BlankSrt),
      Out(<<lang, "en">>, FALSE, Srt(CaptionText, lang, "fetch_via_ytdlp")),
      Out(<<lang, "en">>, FALSE, Srt(CaptionText, "en", "fetch_via_ytdlp")) }

\* YouTube(...) or .captions may raise: PytubeError and VideoUnavailable are
\* caught ("" is returned), anything else propagates.  The caption of lang
\* (or a.lang) is returned if its text is not blank; otherwise the first
\* caption of any language whose text is not blank.
fetch_via_pytube_outcomes(lang) ==
    { Out(<<>>, TRUE, EmptySrt),
      Out(<<>>, FALSE, EmptySrt),
      Out(<<lang>>, FALSE, Srt(CaptionText, lang, "fetch_via_pytube")),
      Out(<<lang, "any">>, FALSE, Srt(CaptionText, "en", "fetch_via_pytube")),
      Out(<<lang, "any">>, FALSE, Srt(CaptionText, "de", "fetch_via_pytube")),
      Out(<<lang, "any">>, FALSE, EmptySrt) }

\* for fn in (fetch_via_transcript_api, fetch_via_ytdlp, fetch_via_pytube)
Providers_YtdlpFirst ==
    <<"fetch_via_ytdlp", "fetch_via_transcript_api", "fetch_via_pytube">>

Providers ==
    <<"fetch_via_transcript_api", "fetch_via_ytdlp", "fetch_via_pytube">>

\* "if srt and srt.strip(): return srt", reached only if fn did not raise
Wins_NoStrip(o) == ~o.raised /\ Truthy(o.srt)

Wins(o) == ~o.raised /\ Truthy(o.srt) /\ StripTruthy(o.srt)

LogOfCall(fn, lang, o) ==
    <<Ev("call", fn, lang, "")>>
    \o [i \in 1..Len(o.lookups) |-> Ev("lookup", fn, o.lookups[i], "")]
    \o <<Ev("result", fn, lang, ResOf(o))>>

\* One iteration of the loop of get_captions: fn(video_id, lang) did o.
\* The call returns at the first winner, or "" after the last provider.
get_captions_step_Propagates(fn, o) ==
    /\ pc = "get_captions"
    /\ Providers[gc_i] = fn
    /\ log' = log \o LogOfCall(fn, gc_lang, o)
    /\ IF o.raised
       THEN pc' = "done" /\ result' = "raised" /\ UNCHANGED <<gc_i, gc_ret>>
       ELSE /\ UNCHANGED result
            /\ IF Wins(o)
               THEN gc_ret' = o.srt /\ pc' = "captions_returned" /\ UNCHANGED gc_i
               ELSE IF gc_i = Len(Providers)
                    THEN gc_ret' = EmptySrt /\ pc' = "captions_returned" /\ UNCHANGED gc_i
                    ELSE gc_i' = gc_i + 1 /\ UNCHANGED <<gc_ret, pc>>
    /\ UNCHANGED <<has, reqvars, gc_lang, gc_pass, srt_content, actual_source, files,
                   cachevars, tlvars, nvars>>

get_captions_step(fn, o) ==
    /\ pc = "get_captions"
    /\ Providers[gc_i] = fn
    /\ log' = log \o LogOfCall(fn, gc_lang, o)
    /\ IF Wins(o)
       THEN gc_ret' = o.srt /\ pc' = "captions_returned" /\ UNCHANGED gc_i
       ELSE IF gc_i = Len(Providers)
            THEN gc_ret' = EmptySrt /\ pc' = "captions_returned" /\ UNCHANGED gc_i
            ELSE gc_i' = gc_i + 1 /\ UNCHANGED <<gc_ret, pc>>
    /\ UNCHANGED <<has, reqvars, gc_lang, gc_pass, pvvars, cachevars, tlvars, nvars>>

fetch_via_transcript_api ==
    \E o \in fetch_via_transcript_api_outcomes(gc_lang) :
        get_captions_step("fetch_via_transcript_api", o)

fetch_via_ytdlp ==
    \E o \in fetch_via_ytdlp_outcomes(gc_lang) :
        get_captions_step("fetch_via_ytdlp", o)

fetch_via_pytube ==
    \E o \in fetch_via_pytube_outcomes(gc_lang) :
        get_captions_step("fetch_via_pytube", o)

----------------------------------------------------------------------------
(* app.py process_video, main.py main: up to the captions *)

\* how a run that produced nothing ends: process_video returns [] and the
\* log, main calls sys.exit
EndedEmpty == IF entry = "app" THEN "returned_empty" ELSE "exit"

\* the min_gap values of a run (the default of the UI and of the CLI)
RunGaps == {100}

\* a call of process_video, or a start of the CLI; runs follow one another
\* in the same process, which keeps the model caches
StartRequest ==
    /\ pc = "idle" \/ (pc = "done" /\ entry = "app")
    /\ entry' \in {"app", "main"}
    /\ use_local' \in BOOLEAN
    /\ source_lang' \in Langs
    /\ pc' = "check_youtube_access"
    /\ log' = <<>>
    /\ gc_lang' = "" /\ gc_i' = 1 /\ gc_pass' = 0 /\ gc_ret' = EmptySrt
    /\ srt_content' = EmptySrt /\ actual_source' = source_lang'
    /\ files' = {} /\ result' = "running"
    /\ model_size' = "" /\ audio_path' = "" /\ audio_file' = NoFile
    /\ temp_dir' = FALSE /\ tl_srt' = EmptySrt
    /\ UNCHANGED <<has, cachevars, nvars>>

\* "if not check_youtube_access(): return [], logs" (main: sys.exit(1))
check_youtube_access_NoGate ==
    /\ pc = "check_youtube_access"
    /\ \E reachable \in BOOLEAN :
          /\ log' = log \o <<Ev("check_youtube_access", "", "",
                                IF reachable THEN "ok" ELSE "fail")>>
          /\ pc' = "extract_video_id" /\ UNCHANGED result
    /\ UNCHANGED <<has, reqvars, gcvars, srt_content, actual_source, files,
                   cachevars, tlvars, nvars>>

check_youtube_access ==
    /\ pc = "check_youtube_access"
    /\ \E reachable \in BOOLEAN :
          /\ log' = log \o <<Ev("check_youtube_access", "", "",
                                IF reachable THEN "ok" ELSE "fail")>>
          /\ IF reachable
             THEN pc' = "extract_video_id" /\ UNCHANGED result
             ELSE pc' = "done" /\ result' = EndedEmpty
    /\ UNCHANGED <<has, reqvars, gcvars, srt_content, actual_source, files,
                   cachevars, tlvars, nvars>>

\* the call get_captions(vid, lang)
CallGetCaptions(lang) ==
    /\ pc' = "get_captions"
    /\ gc_lang' = lang
    /\ gc_i' = 1
    /\ gc_pass' = gc_pass + 1
    /\ gc_ret' = EmptySrt

\* "vid = extract_video_id(url.strip()); if not vid: return [], logs", then
\* srt_content = "", actual_source = source_lang and, unless local
\* transcription is asked for, the first get_captions(vid, source_lang)
extract_video_id ==
    /\ pc = "extract_video_id"
    /\ \E valid \in BOOLEAN :
          /\ IF ~valid
             THEN /\ pc' = "done" /\ result' = EndedEmpty
                  /\ log' = log \o <<Ev("extract_video_id", "", "", "invalid")>>
                  /\ UNCHANGED gcvars
             ELSE /\ UNCHANGED result
                  /\ IF ~use_local
                     THEN /\ CallGetCaptions(source_lang)
                          /\ log' = log \o <<Ev("extract_video_id", "", "", "ok"),
                                             Ev("get_captions", "", source_lang, "")>>
                     ELSE /\ pc' = "local_gate"
                          /\ log' = log \o <<Ev("extract_video_id", "", "", "ok")>>
                          /\ UNCHANGED gcvars
    /\ UNCHANGED <<has, reqvars, srt_content, actual_source, files,
                   cachevars, tlvars, nvars>>

\* "if not srt_content and source_lang != 'en':"
NeedsFallback_AnyLanguage(ret, lang) == ~Truthy(ret)

NeedsFallback(ret, lang) == ~Truthy(ret) /\ lang # "en"

\* actual_source = "en" (main: args.source_lang = "en")
FallbackSource_Requested == source_lang

FallbackSource == "en"

\* "srt_content = get_captions(vid, source_lang)" and
\* "if not srt_content and source_lang != 'en':" the call get_captions(vid, "en")
captions_returned_first ==
    /\ pc = "captions_returned"
    /\ gc_pass = 1
    /\ srt_content' = gc_ret
    /\ IF NeedsFallback(gc_ret, source_lang)
       THEN /\ CallGetCaptions("en")
            /\ log' = log \o <<Ev("get_captions", "", "en", "")>>
       ELSE /\ pc' = "local_gate"
            /\ UNCHANGED <<gcvars, log>>
    /\ UNCHANGED <<has, reqvars, actual_source, files, result,
                   cachevars, tlvars, nvars>>

\* "srt_content = get_captions(vid, 'en'); actual_source = 'en'"
captions_returned_fallback ==
    /\ pc = "captions_returned"
    /\ gc_pass = 2
    /\ srt_content' = gc_ret
    /\ actual_source' = FallbackSource
    /\ pc' = "local_gate"
    /\ UNCHANGED <<has, reqvars, gcvars, log, files, result,
                   cachevars, tlvars, nvars>>

\* "if not srt_content and use_local_transcription:" the call
\* transcribe_local(vid, output_dir, source_lang, whisper_model, ...)
local_gate_Fallback ==
    /\ pc = "local_gate"
    /\ IF ~Truthy(srt_content)
       THEN /\ pc' = "transcribe_local"
            /\ log' = log \o <<Ev("transcribe_local", "", source_lang, "")>>
       ELSE /\ pc' = "have_srt"
            /\ UNCHANGED log
    /\ UNCHANGED <<has, reqvars, gcvars, pvvars, cachevars, tlvars, nvars>>

local_gate ==
    /\ pc = "local_gate"
    /\ IF ~Truthy(srt_content) /\ use_local
       THEN /\ pc' = "transcribe_local"
            /\ log' = log \o <<Ev("transcribe_local", "", source_lang, "")>>
       ELSE /\ pc' = "have_srt"
            /\ UNCHANGED log
    /\ UNCHANGED <<has, reqvars, gcvars, pvvars, cachevars, tlvars, nvars>>

----------------------------------------------------------------------------
(* transcription.py *)

MAX_CACHED_MODELS == 1

\* whisper_model values: two of VALID_MODEL_SIZES and one that is not
Sizes == {"base", "large", "huge"}

VALID_MODEL_SIZES == {"tiny", "base", "small", "medium", "large",
                      "large-v1", "large-v2", "large-v3"}

validate_model_size_Any(size) == TRUE

validate_model_size(size) == size \in VALID_MODEL_SIZES

\* the sizes argparse lets through (main.py --whisper-model choices)
CliChoices == {"tiny", "base", "small", "medium", "large"}

\* smallest size of a valid audio file, in bytes
MinAudioSize == 1000

check_audio_file_AnySize(f) ==
    /\ f.exists
    /\ f.ext \in {".mp3", ".wav", ".m4a", ".flac"}

check_audio_file(f) ==
    /\ f.exists
    /\ f.size >= MinAudioSize
    /\ f.ext \in {".mp3", ".wav", ".m4a", ".flac"}

\* what the yt-dlp run can leave behind
DownloadedFiles ==
    { NoFile, File(TRUE, 5000, ".mp3"), File(TRUE, 10, ".mp3"), File(TRUE, 5000, ".webm") }

\* how far the steps of transcribe_local go on from the value of srt
AfterWhisper_NoRemote(srt) == "cleanup"

AfterWhisper(srt) ==
    IF ~Truthy(srt) /\ has.api THEN "remote_lookup" ELSE "cleanup"

AfterFaster_Always(srt) ==
    IF has.whisper THEN "transcribe_whisper" ELSE AfterWhisper(srt)

AfterFaster(srt) ==
    IF ~Truthy(srt) /\ has.whisper THEN "transcribe_whisper" ELSE AfterWhisper(srt)

AfterClean ==
    IF has.faster THEN "transcribe_faster" ELSE AfterFaster(EmptySrt)

\* the end of a step of transcribe_local that returned r; started: the
\* step was entered before this action
StepReturns(fn, r, res, after, started) ==
    /\ tl_srt' = r
    /\ log' = log \o (IF started THEN <<>> ELSE <<Ev("step", fn, source_lang, "")>>)
                   \o <<Ev("step_result", fn, source_lang, res)>>
    /\ pc' = after

\* logging.getLogger().setLevel, "if not validate_model_size(model_size):
\* return ''" and the CUDA memory report
transcribe_local ==
    /\ pc = "transcribe_local"
    /\ \E size \in (IF entry = "main" THEN Sizes \cap CliChoices ELSE Sizes) :
          /\ model_size' = size
          /\ IF ~validate_model_size(size)
             THEN /\ tl_srt' = EmptySrt
                  /\ pc' = "local_returned"
             ELSE /\ pc' = "download_audio"
                  /\ UNCHANGED tl_srt
    /\ UNCHANGED <<has, log, reqvars, gcvars, pvvars, cachevars,
                   audio_path, audio_file, temp_dir, nvars>>

\* download_audio, the yt-dlp CLI: shutil.which finds the tool or not.  When
\* it does not, line 207 reads cmd before any assignment: UnboundLocalError,
\* outside every try, ends the run.  Otherwise mkdtemp, the run (it may time
\* out or exit non-zero) and the search of the directory for a valid file.
download_audio_cli ==
    /\ pc = "download_audio"
    /\ \E found \in BOOLEAN, raised \in BOOLEAN, f \in DownloadedFiles :
          IF ~found
          THEN /\ pc' = "done"
               /\ result' = "raised"
               /\ log' = log \o <<Ev("download_audio", "cli", "", "UnboundLocalError")>>
               /\ UNCHANGED <<audio_path, audio_file, temp_dir>>
          ELSE /\ temp_dir' = TRUE
               /\ UNCHANGED result
               /\ IF ~raised /\ f.ext \in {".mp3", ".m4a", ".wav"} /\ check_audio_file(f)
                  THEN /\ audio_path' = "cli"
                       /\ audio_file' = f
                       /\ pc' = "clean_model_cache"
                       /\ log' = log \o <<Ev("download_audio", "cli", "", "ok")>>
                  ELSE /\ pc' = "download_audio_api"
                       /\ log' = log \o <<Ev("download_audio", "cli", "", "fail")>>
                       /\ UNCHANGED <<audio_path, audio_file>>
    /\ UNCHANGED <<has, reqvars, gcvars, srt_content, actual_source, files,
                   cachevars, model_size, tl_srt, nvars>>

\* download_audio, the fallback: _download_with_yt_dlp_api returns "" (no
\* yt_dlp module, a download error, no file: NoFile) or the path of a file, which
\* check_audio_file then accepts or not; and, in transcribe_local,
\* "if not audio_path or not os.path.exists(audio_path):"
download_audio_api ==
    /\ pc = "download_audio_api"
    /\ \E f \in DownloadedFiles :
          IF f.exists /\ check_audio_file(f)
          THEN /\ audio_path' = "api"
               /\ audio_file' = f
               /\ pc' = "clean_model_cache"
               /\ log' = log \o <<Ev("download_audio", "api", "", "ok")>>
          ELSE /\ pc' = "remote_without_audio"
               /\ log' = log \o <<Ev("download_audio", "api", "", "fail")>>
               /\ UNCHANGED <<audio_path, audio_file>>
    /\ UNCHANGED <<has, reqvars, gcvars, pvvars, cachevars, model_size,
                   temp_dir, tl_srt, nvars>>

\* get_youtube_api_transcript: "" without the API module, on
\* NoTranscriptFound, on any other error and for an empty transcript;
\* otherwise the transcript, in whatever language it is
get_youtube_api_transcript_outcomes ==
    IF ~has.api THEN {EmptySrt}
    ELSE {EmptySrt} \cup { Srt(RemoteText, l, "get_youtube_api_transcript") : l \in Langs }

\* "return get_youtube_api_transcript(video_id)" after a failed download
remote_without_audio ==
    /\ pc = "remote_without_audio"
    /\ \E r \in get_youtube_api_transcript_outcomes :
          StepReturns("get_youtube_api_transcript", r,
                      IF Truthy(r) THEN "text" ELSE "empty", "local_returned", FALSE)
    /\ UNCHANGED <<has, reqvars, gcvars, pvvars, cachevars, model_size,
                   audio_path, audio_file, temp_dir, nvars>>

\* "clean_model_cache(); srt = ''" before the steps
clean_model_cache ==
    /\ pc = "clean_model_cache"
    /\ whisper_models' = {}
    /\ faster_models' = {}
    /\ tl_srt' = EmptySrt
    /\ pc' = AfterClean
    /\ UNCHANGED <<has, log, reqvars, gcvars, pvvars, model_size,
                   audio_path, audio_file, temp_dir, nvars>>

\* transcribe_faster: "if not check_audio_file(path): return ''"
transcribe_faster ==
    /\ pc = "transcribe_faster"
    /\ IF ~check_audio_file(audio_file)
       THEN StepReturns("transcribe_faster", EmptySrt, "no_audio", AfterFaster(EmptySrt), FALSE)
       ELSE /\ pc' = "_get_faster_model"
            /\ log' = log \o <<Ev("step", "transcribe_faster", source_lang, "")>>
            /\ UNCHANGED tl_srt
    /\ UNCHANGED <<has, reqvars, gcvars, pvvars, cachevars, model_size,
                   audio_path, audio_file, temp_dir, nvars>>

\* _get_faster_model: the cache is cleared when _faster_models is full and
\* does not hold size; then the model is loaded.  A failed load is raised
\* to transcribe_faster, which returns "" (after clean_model_cache if the
\* error is torch.cuda.OutOfMemoryError).
get_faster_model ==
    /\ pc = "_get_faster_model"
    /\ LET evict == Cardinality(faster_models) >= MAX_CACHED_MODELS
                    /\ model_size \notin faster_models
           fm == IF evict THEN {} ELSE faster_models
           wm == IF evict THEN {} ELSE whisper_models
       IN \E load \in {"ok", "error", "oom"} :
             IF model_size \in fm \/ load = "ok"
             THEN /\ faster_models' = fm \cup {model_size}
                  /\ whisper_models' = wm
                  /\ pc' = "faster_run"
                  /\ UNCHANGED <<tl_srt, log>>
             ELSE /\ faster_models' = (IF load = "oom" THEN {} ELSE fm)
                  /\ whisper_models' = (IF load = "oom" THEN {} ELSE wm)
                  /\ StepReturns("transcribe_faster", EmptySrt, load, AfterFaster(EmptySrt), TRUE)
    /\ UNCHANGED <<has, reqvars, gcvars, pvvars, model_size,
                   audio_path, audio_file, temp_dir, nvars>>

\* transcribe_faster, from model.transcribe on: segments are formatted, the
\* model is deleted from _faster_models and the text returned; no segments,
\* or an error, return "" and leave the model where it is; out of memory
\* clears both caches and returns "".
faster_run_KeepsModel ==
    /\ pc = "faster_run"
    /\ \E run \in {"segments", "none", "error", "oom"} :
          /\ faster_models' = (IF run = "oom" THEN {} ELSE faster_models)
          /\ whisper_models' = (IF run = "oom" THEN {} ELSE whisper_models)
          /\ LET r == IF run = "segments"
                      THEN Srt(BackendText, source_lang, "transcribe_faster")
                      ELSE EmptySrt
             IN StepReturns("transcribe_faster", r, run, AfterFaster(r), TRUE)
    /\ UNCHANGED <<has, reqvars, gcvars, pvvars, model_size,
                   audio_path, audio_file, temp_dir, nvars>>

faster_run ==
    /\ pc = "faster_run"
    /\ \E run \in {"segments", "none", "error", "oom"} :
          /\ faster_models' = (IF run = "segments" THEN faster_models \ {model_size}
                               ELSE IF run = "oom" THEN {} ELSE faster_models)
          /\ whisper_models' = (IF run = "oom" THEN {} ELSE whisper_models)
          /\ LET r == IF run = "segments"
                      THEN Srt(BackendText, source_lang, "transcribe_faster")
                      ELSE EmptySrt
             IN StepReturns("transcribe_faster", r, run, AfterFaster(r), TRUE)
    /\ UNCHANGED <<has, reqvars, gcvars, pvvars, model_size,
                   audio_path, audio_file, temp_dir, nvars>>

\* transcribe_whisper: "if not check_audio_file(path): return ''"
transcribe_whisper ==
    /\ pc = "transcribe_whisper"
    /\ IF ~check_audio_file(audio_file)
       THEN StepReturns("transcribe_whisper", EmptySrt, "no_audio", AfterWhisper(EmptySrt), FALSE)
       ELSE /\ pc' = "_get_whisper_model"
            /\ log' = log \o <<Ev("step", "transcribe_whisper", source_lang, "")>>
            /\ UNCHANGED tl_srt
    /\ UNCHANGED <<has, reqvars, gcvars, pvvars, cachevars, model_size,
                   audio_path, audio_file, temp_dir, nvars>>

\* _get_whisper_model: as _get_faster_model, on _whisper_models
get_whisper_model ==
    /\ pc = "_get_whisper_model"
    /\ LET evict == Cardinality(whisper_models) >= MAX_CACHED_MODELS
                    /\ model_size \notin whisper_models
           fm == IF evict THEN {} ELSE faster_models
           wm == IF evict THEN {} ELSE whisper_models
       IN \E load \in {"ok", "error", "oom"} :
             IF model_size \in wm \/ load = "ok"
             THEN /\ whisper_models' = wm \cup {model_size}
                  /\ faster_models' = fm
                  /\ pc' = "whisper_run"
                  /\ UNCHANGED <<tl_srt, log>>
             ELSE /\ faster_models' = (IF load = "oom" THEN {} ELSE fm)
                  /\ whisper_models' = (IF load = "oom" THEN {} ELSE wm)
                  /\ StepReturns("transcribe_whisper", EmptySrt, load, AfterWhisper(EmptySrt), TRUE)
    /\ UNCHANGED <<has, reqvars, gcvars, pvvars, model_size,
                   audio_path, audio_file, temp_dir, nvars>>

\* transcribe_whisper, from model.transcribe on
whisper_run_OomKeepsCache ==
    /\ pc = "whisper_run"
    /\ \E run \in {"segments", "none", "error", "oom"} :
          /\ whisper_models' = (IF run = "segments" THEN whisper_models \ {model_size}
                                ELSE whisper_models)
          /\ faster_models' = faster_models
          /\ LET r == IF run = "segments"
                      THEN Srt(BackendText, source_lang, "transcribe_whisper")
                      ELSE EmptySrt
             IN StepReturns("transcribe_whisper", r, run, AfterWhisper(r), TRUE)
    /\ UNCHANGED <<has, reqvars, gcvars, pvvars, model_size,
                   audio_path, audio_file, temp_dir, nvars>>

whisper_run ==
    /\ pc = "whisper_run"
    /\ \E run \in {"segments", "none", "error", "oom"} :
          /\ whisper_models' = (IF run = "segments" THEN whisper_models \ {model_size}
                                ELSE IF run = "oom" THEN {} ELSE whisper_models)
          /\ faster_models' = (IF run = "oom" THEN {} ELSE faster_models)
          /\ LET r == IF run = "segments"
                      THEN Srt(BackendText, source_lang, "transcribe_whisper")
                      ELSE EmptySrt
             IN StepReturns("transcribe_whisper", r, run, AfterWhisper(r), TRUE)
    /\ UNCHANGED <<has, reqvars, gcvars, pvvars, model_size,
                   audio_path, audio_file, temp_dir, nvars>>

\* "if not srt and HAS_API: srt = get_youtube_api_transcript(video_id)"
remote_lookup ==
    /\ pc = "remote_lookup"
    /\ \E r \in get_youtube_api_transcript_outcomes :
          StepReturns("get_youtube_api_transcript", r,
                      IF Truthy(r) THEN "text" ELSE "empty", "cleanup", FALSE)
    /\ UNCHANGED <<has, reqvars, gcvars, pvvars, cachevars, model_size,
                   audio_path, audio_file, temp_dir, nvars>>

\* the end of transcribe_local: os.remove(audio_path) and, if the directory
\* that held it is then empty, os.rmdir (both in a try: a failure is logged
\* by logger.warning and the file stays); clean_model_cache(); return srt
cleanup_NoRemove ==
    /\ pc = "cleanup"
    /\ whisper_models' = {}
    /\ faster_models' = {}
    /\ pc' = "local_returned"
    /\ UNCHANGED <<has, log, reqvars, gcvars, pvvars, model_size,
                   audio_path, audio_file, temp_dir, tl_srt, nvars>>

cleanup_KeepsModels ==
    /\ pc = "cleanup"
    /\ \E removed \in BOOLEAN, dir_empty \in BOOLEAN :
          /\ audio_file' = (IF removed THEN NoFile ELSE audio_file)
          /\ temp_dir' = (IF removed /\ dir_empty /\ audio_path = "cli"
                          THEN FALSE ELSE temp_dir)
          /\ log' = log \o <<Ev("cleanup", "os.remove", "",
                                 IF removed THEN "removed" ELSE "failed")>>
    /\ pc' = "local_returned"
    /\ UNCHANGED <<has, reqvars, gcvars, pvvars, cachevars, model_size,
                   audio_path, tl_srt, nvars>>

cleanup ==
    /\ pc = "cleanup"
    /\ \E removed \in BOOLEAN, dir_empty \in BOOLEAN :
          /\ audio_file' = (IF removed THEN NoFile ELSE audio_file)
          /\ temp_dir' = (IF removed /\ dir_empty /\ audio_path = "cli"
                          THEN FALSE ELSE temp_dir)
          /\ log' = log \o <<Ev("cleanup", "os.remove", "",
                                 IF removed THEN "removed" ELSE "failed")>>
    /\ whisper_models' = {}
    /\ faster_models' = {}
    /\ pc' = "local_returned"
    /\ UNCHANGED <<has, reqvars, gcvars, pvvars, model_size,
                   audio_path, tl_srt, nvars>>

----------------------------------------------------------------------------
(* app.py process_video, main.py main: from the transcript on *)

\* "srt_content = transcribe_local(...); actual_source = source_lang"
local_returned ==
    /\ pc = "local_returned"
    /\ srt_content' = tl_srt
    /\ actual_source' = source_lang
    /\ pc' = "have_srt"
    /\ UNCHANGED <<has, log, reqvars, gcvars, files, result,
                   cachevars, tlvars, nvars>>

\* "if not srt_content: return [], logs" (main: sys.exit(1)); then
\* validate_and_adjust_timings(srt_content, min_gap), which may raise, the
\* write of {vid}_{actual_source}.srt and, unless download_only, of the
\* .txt file when save_txt is set
have_srt ==
    /\ pc = "have_srt"
    /\ pc' = "done"
    /\ IF ~Truthy(srt_content)
       THEN /\ result' = EndedEmpty
            /\ UNCHANGED <<srt_content, files, log>>
       ELSE \E min_gap \in RunGaps, download_only \in BOOLEAN, save_txt \in BOOLEAN :
               LET r == validate_and_adjust_timings(srt_content.text, min_gap)
               IN IF ~r.ok
                  THEN /\ result' = "raised"
                       /\ log' = log \o <<Ev("validate_and_adjust_timings", "", "", "raise")>>
                       /\ UNCHANGED <<srt_content, files>>
                  ELSE /\ result' = "returned"
                       /\ srt_content' = [srt_content EXCEPT !.text = r.text]
                       /\ files' = {[ext |-> "srt", lang |-> actual_source]}
                                   \cup (IF save_txt /\ ~(entry = "app" /\ download_only)
                                         THEN {[ext |-> "txt", lang |-> actual_source]}
                                         ELSE {})
                       /\ log' = log \o <<Ev("validate_and_adjust_timings", "", "", "ok"),
                                          Ev("write", "", actual_source, "")>>
    /\ UNCHANGED <<has, reqvars, gcvars, actual_source, cachevars, tlvars, nvars>>

----------------------------------------------------------------------------
(* The specifications *)

NoResult == [ok |-> FALSE, text |-> <<>>]

\* no value read back yet
NoBack == [ok |-> FALSE, ms |-> 0]

\* The process after the imports, before any run: caption_fetch.py imports
\* youtube_transcript_api unconditionally, so HAS_API is set in every
\* process that reaches process_video or main; faster_whisper and whisper
\* may be missing; both caches are empty.  The normaliser harness is at rest.
Init ==
    /\ has \in [faster : BOOLEAN, whisper : BOOLEAN, api : {TRUE}]
    /\ pc = "idle"
    /\ entry = "app"
    /\ use_local = FALSE
    /\ source_lang = "en"
    /\ log = <<>>
    /\ gc_lang = "" /\ gc_i = 1 /\ gc_pass = 0 /\ gc_ret = EmptySrt
    /\ srt_content = EmptySrt /\ actual_source = "en"
    /\ files = {} /\ result = "running"
    /\ whisper_models = {} /\ faster_models = {}
    /\ model_size = "" /\ audio_path = "" /\ audio_file = NoFile
    /\ temp_dir = FALSE /\ tl_srt = EmptySrt
    /\ nsrt = <<>>
    /\ ngap = 100
    /\ npc = "idle"
    /\ nout = NoResult
    /\ nout2 = NoResult
    /\ t_ms = 0 /\ t_ts = NoTs /\ t_back = NoBack /\ t_pc = "idle"

Next ==
    \/ StartRequest
    \/ check_youtube_access
    \/ extract_video_id
    \/ fetch_via_transcript_api
    \/ fetch_via_ytdlp
    \/ fetch_via_pytube
    \/ captions_returned_first
    \/ captions_returned_fallback
    \/ local_gate
    \/ transcribe_local
    \/ download_audio_cli
    \/ download_audio_api
    \/ remote_without_audio
    \/ clean_model_cache
    \/ transcribe_faster
    \/ get_faster_model
    \/ faster_run
    \/ transcribe_whisper
    \/ get_whisper_model
    \/ whisper_run
    \/ remote_lookup
    \/ cleanup
    \/ local_returned
    \/ have_srt

Spec == Init /\ [][Next]_vars

\* srt = validate_and_adjust_timings(srt, min_gap)
NormalizeOnce ==
    /\ npc = "in"
    /\ nout' = validate_and_adjust_timings(nsrt, ngap)
    /\ npc' = "once"
    /\ UNCHANGED <<nsrt, ngap, nout2, tvars, ovars>>

\* the same call on the text the first call returned
NormalizeAgain ==
    /\ npc = "once"
    /\ nout.ok
    /\ nout2' = validate_and_adjust_timings(nout.text, ngap)
    /\ npc' = "twice"
    /\ UNCHANGED <<nsrt, ngap, nout, tvars, ovars>>

NNext == NormalizeOnce \/ NormalizeAgain

\* the normaliser alone, on every input of the harness
InitNorm ==
    /\ nsrt \in { TextOf(bs) : bs \in SeqsUpTo(InBlocks, MaxBlocks) }
    /\ ngap \in Gaps
    /\ npc = "in"
    /\ nout = NoResult
    /\ nout2 = NoResult
    /\ t_ms = 0 /\ t_ts = NoTs /\ t_back = NoBack /\ t_pc = "idle"
    /\ has = [faster |-> TRUE, whisper |-> TRUE, api |-> TRUE]
    /\ pc = "idle"
    /\ entry = "app"
    /\ use_local = FALSE
    /\ source_lang = "en"
    /\ log = <<>>
    /\ gc_lang = "" /\ gc_i = 1 /\ gc_pass = 0 /\ gc_ret = EmptySrt
    /\ srt_content = EmptySrt /\ actual_source = "en"
    /\ files = {} /\ result = "running"
    /\ whisper_models = {} /\ faster_models = {}
    /\ model_size = "" /\ audio_path = "" /\ audio_file = NoFile
    /\ temp_dir = FALSE /\ tl_srt = EmptySrt

SpecNorm == InitNorm /\ [][NNext]_vars

\* the ms values of the timestamp harness: every hours value up to MaxHour
\* with one- and two-digit minutes and seconds up to the ends of their
\* ranges and the values of ms_rem that need one, two and three digits
MsInputs ==
    { h * 3600000 + m * 60000 + sec * 1000 + f :
        h \in 0..MaxHour, m \in {0, 1, 9, 10, 59}, sec \in {0, 1, 9, 10, 59},
        f \in {0, 1, 9, 10, 99, 100, 999} }

\* ts = ms_to_time(ms)
FormatTime ==
    /\ t_pc = "in"
    /\ t_ts' = ms_to_time(t_ms)
    /\ t_pc' = "formatted"
    /\ UNCHANGED <<t_ms, t_back, nsrt, ngap, npc, nout, nout2, ovars>>

\* time_to_ms(parse_srt_time(ts)); ok = FALSE: parse_srt_time raised
ParseBack ==
    /\ t_pc = "formatted"
    /\ LET dt == parse_srt_time(t_ts)
       IN t_back' = [ok |-> dt.ok, ms |-> IF dt.ok THEN time_to_ms(dt) ELSE 0]
    /\ t_pc' = "parsed"
    /\ UNCHANGED <<t_ms, t_ts, nsrt, ngap, npc, nout, nout2, ovars>>

TNext == FormatTime \/ ParseBack

\* the timestamp functions alone, on every ms value of the harness
InitTime ==
    /\ t_ms \in MsInputs
    /\ t_ts = NoTs
    /\ t_back = NoBack
    /\ t_pc = "in"
    /\ nsrt = <<>>
    /\ ngap = 100
    /\ npc = "idle"
    /\ nout = NoResult
    /\ nout2 = NoResult
    /\ has = [faster |-> TRUE, whisper |-> TRUE, api |-> TRUE]
    /\ pc = "idle"
    /\ entry = "app"
    /\ use_local = FALSE
    /\ source_lang = "en"
    /\ log = <<>>
    /\ gc_lang = "" /\ gc_i = 1 /\ gc_pass = 0 /\ gc_ret = EmptySrt
    /\ srt_content = EmptySrt /\ actual_source = "en"
    /\ files = {} /\ result = "running"
    /\ whisper_models = {} /\ faster_models = {}
    /\ model_size = "" /\ audio_path = "" /\ audio_file = NoFile
    /\ temp_dir = FALSE /\ tl_srt = EmptySrt

SpecTime == InitTime /\ [][TNext]_vars

----------------------------------------------------------------------------
(* Claims about the normaliser, checked under SpecNorm *)

SegStart(blk) == TsMs(blk[2].start)

SegEnd(blk) == TsMs(blk[2].end)

InStart(blk) == time_to_ms(parse_srt_time(blk[2].start))

InEnd(blk) == time_to_ms(parse_srt_time(blk[2].end))

\* the segments of the returned text and of the argument
OutSegs == Blocks(nout.text)

InSegs == Blocks(nsrt)

Returned == npc # "in" /\ nout.ok

\* C1: in the returned timeline every segment starts at least min_gap after
\* the (adjusted) end of the segment before it.
C1_AdjacentGap ==
    Returned =>
        \A i \in 1..(Len(OutSegs) - 1) :
            SegStart(OutSegs[i + 1]) >= SegEnd(OutSegs[i]) + ngap

\* C1 witness: Scenario A, the second segment was moved from 1500 to 2100.
C1_Witness ==
    /\ Returned
    /\ ngap = 100
    /\ Len(OutSegs) = 2
    /\ InStart(InSegs[2]) = 1500
    /\ SegEnd(OutSegs[1]) = 2000
    /\ SegStart(OutSegs[2]) = 2100
    /\ SegEnd(OutSegs[2]) = 3000

\* C2: every returned segment ends after it starts, and a segment whose
\* original end was at or before its adjusted start lasts exactly 500 ms.
C2_MinDuration ==
    Returned =>
        /\ Len(OutSegs) = Len(InSegs)
        /\ \A i \in 1..Len(OutSegs) :
              /\ SegEnd(OutSegs[i]) >= SegStart(OutSegs[i]) + 1
              /\ (InEnd(InSegs[i]) <= SegStart(OutSegs[i])
                    => SegEnd(OutSegs[i]) - SegStart(OutSegs[i]) = 500)

\* C2 witness: Scenario B, start = 2100 and end = 2100 become 2100 --> 2600.
C2_Witness ==
    /\ Returned
    /\ \E i \in 1..Len(OutSegs) :
          /\ InEnd(InSegs[i]) = 2100
          /\ SegStart(OutSegs[i]) = 2100
          /\ SegEnd(OutSegs[i]) = 2600

\* C3: normalising the returned text again, with the same min_gap, returns
\* the same text.
C3_Idempotent ==
    npc = "twice" => nout2 = nout

Max(a, b) == IF a >= b THEN a ELSE b

\* the single-pass reference algorithm on segments <<start_ms, end_ms>>,
\* from segment i on, with prev_end as it stands there
RECURSIVE Reference(_, _, _, _)
Reference(segs, i, prev_end, min_gap) ==
    IF i > Len(segs) THEN <<>>
    ELSE LET new_start == Max(segs[i][1], prev_end + min_gap)
             new_end == IF segs[i][2] <= new_start THEN new_start + 500 ELSE segs[i][2]
         IN <<(<<new_start, new_end>>)>> \o Reference(segs, i + 1, new_end, min_gap)

\* C18: the timestamps of the returned timeline are those of the reference
\* algorithm applied to the segments of the input, prev_end starting at 0.
C18_MatchesReference ==
    Returned =>
        LET ref == Reference([i \in 1..Len(InSegs) |->
                                 <<InStart(InSegs[i]), InEnd(InSegs[i])>>], 1, 0, ngap)
        IN /\ Len(OutSegs) = Len(ref)
           /\ \A i \in 1..Len(ref) :
                 /\ SegStart(OutSegs[i]) = ref[i][1]
                 /\ SegEnd(OutSegs[i]) = ref[i][2]

\* C18 witness: Scenario A as texts, (1000,2000) and (1500,3000) with
\* min_gap 100 give (1000,2000) and (2100,3000).
C18_Witness ==
    /\ npc = "once"
    /\ ngap = 100
    /\ nsrt = TextOf(<<Cue("1", T(1000), T(2000), "Hello"),
                       Cue("2", T(1500), T(3000), "World")>>)
    /\ nout.ok
    /\ nout.text = TextOf(<<Cue("1", T(1000), T(2000), "Hello"),
                            Cue("2", T(2100), T(3000), "World")>>)

C20_Monotonic ==
    Returned =>
        \A i \in 1..(Len(OutSegs) - 1) :
            SegStart(OutSegs[i]) <= SegStart(OutSegs[i + 1])

\* the adjusted end of the segment before segment i (0 before the first)
PrevEnd(i) == IF i = 1 THEN 0 ELSE SegEnd(OutSegs[i - 1])

\* segment i needed no repair: it starts at least min_gap after the adjusted
\* end of the segment before it and ends after it starts
NeedsNoRepair(i) ==
    /\ InStart(InSegs[i]) >= PrevEnd(i) + ngap
    /\ InEnd(InSegs[i]) > InStart(InSegs[i])

\* C30: no timestamp of the returned timeline is earlier than the one it
\* replaces, and a segment that needed no repair keeps both its times.
C30_NeverEarlier ==
    Returned =>
        \A i \in 1..Len(InSegs) :
            /\ SegStart(OutSegs[i]) >= InStart(InSegs[i])
            /\ SegEnd(OutSegs[i]) >= InEnd(InSegs[i])
            /\ NeedsNoRepair(i) =>
                  /\ SegStart(OutSegs[i]) = InStart(InSegs[i])
                  /\ SegEnd(OutSegs[i]) = InEnd(InSegs[i])

\* C30 witness: a timeline of three segments in which one kept both times
\* and a later one had both its start and its end moved to a later time.
C30_Witness ==
    /\ Returned
    /\ Len(InSegs) = 3
    /\ \E i, j \in 1..3 :
          /\ i < j
          /\ NeedsNoRepair(i)
          /\ SegStart(OutSegs[i]) = InStart(InSegs[i])
          /\ SegStart(OutSegs[j]) > InStart(InSegs[j])
          /\ SegEnd(OutSegs[j]) > InEnd(InSegs[j])

\* C14: the call returns a text for every input text and every min_gap; it
\* never raises.
C14_Total ==
    npc # "in" => nout.ok

----------------------------------------------------------------------------
(* Claims about the timestamp functions, checked under SpecTime *)

\* C31: for every ms from 0 to 86,399,999 the timestamp of ms_to_time has
\* minutes and seconds below 60 and three fraction digits of value below
\* 1000, its fields add up to ms, and parse_srt_time followed by time_to_ms
\* reads it back as ms.
C31_RoundTrip ==
    (0 <= t_ms /\ t_ms < 86400000) =>
        /\ t_pc \in {"formatted", "parsed"} =>
              /\ t_ts.h >= 0
              /\ t_ts.m \in 0..59
              /\ t_ts.s \in 0..59
              /\ t_ts.fd = 3
              /\ t_ts.fv \in 0..999
              /\ t_ts.h * 3600000 + t_ts.m * 60000 + t_ts.s * 1000 + t_ts.fv = t_ms
        /\ t_pc = "parsed" => (t_back.ok /\ t_back.ms = t_ms)

\* C31 witness: the last millisecond of the day, "23:59:59,999", was read
\* back as 86,399,999.
C31_Witness ==
    /\ t_pc = "parsed"
    /\ t_ms = 86399999
    /\ t_ts = Ts(23, 59, 59, 3, 999)
    /\ t_back = [ok |-> TRUE, ms |-> 86399999]

----------------------------------------------------------------------------
(* Claims about a run, checked under Spec *)

\* the positions of the log entries of kind ev
Idx(ev) == { i \in 1..Len(log) : log[i].ev = ev }

\* the provider results logged after entry i and before entry j
ResultsBetween(i, j) == { k \in Idx("result") : i < k /\ k < j }

\* the get_captions call under which entry j was logged
ResolveOf(j) ==
    CHOOSE g \in Idx("get_captions") :
        g < j /\ \A h \in Idx("get_captions") : h < j => h <= g

\* the positions of the run inside transcribe_local
InTranscribeLocal ==
    pc \in {"transcribe_local", "download_audio", "download_audio_api",
            "remote_without_audio", "clean_model_cache", "transcribe_faster",
            "_get_faster_model", "faster_run", "transcribe_whisper",
            "_get_whisper_model", "whisper_run", "remote_lookup", "cleanup"}

\* C4: during a transcribe_local call the two caches together hold at most
\* one loaded model.
C4_AtMostOneModel ==
    InTranscribeLocal =>
        Cardinality(whisper_models) + Cardinality(faster_models) <= 1

\* the declared order of the providers
C5_Order == <<"fetch_via_transcript_api", "fetch_via_ytdlp", "fetch_via_pytube">>

\* C5: within one get_captions call the providers are called in the declared
\* order, a provider is called only after every earlier one came back
\* without text (empty, blank or raising), and the call returns the text of
\* the first provider that gave text, right after that provider's result.
C5_FirstProviderWins ==
    /\ \A j \in Idx("call") :
          LET prior == ResultsBetween(ResolveOf(j), j)
          IN /\ Cardinality(prior) < 3
             /\ log[j].fn = C5_Order[Cardinality(prior) + 1]
             /\ \A k \in prior : log[k].res # "text"
    /\ pc = "captions_returned" =>
          LET rs == ResultsBetween(ResolveOf(Len(log) + 1), Len(log) + 1)
              winners == { k \in rs : log[k].res = "text" }
          IN IF winners = {}
             THEN gc_ret = EmptySrt /\ Cardinality(rs) = 3
             ELSE /\ winners = {Len(log)}
                  /\ gc_ret.by = log[Len(log)].fn
                  /\ gc_ret.text = CaptionText

\* C5 witness: the first provider returned whitespace, the second raised,
\* the third won.
C5_Witness ==
    /\ pc = "captions_returned"
    /\ gc_ret.by = "fetch_via_pytube"
    /\ \E i, j \in Idx("result") :
          /\ log[i].fn = "fetch_via_transcript_api" /\ log[i].res = "blank"
          /\ log[j].fn = "fetch_via_ytdlp" /\ log[j].res = "raise"

\* C6: a run calls get_captions at most twice; the second call is for "en",
\* is made only when the requested language is not "en", and only after all
\* three providers came back without text for the requested language.
C6_FallbackOnce ==
    /\ Cardinality(Idx("get_captions")) <= 2
    /\ \A i, j \in Idx("get_captions") :
          i < j =>
             /\ log[j].lang = "en"
             /\ log[i].lang = source_lang
             /\ source_lang # "en"
             /\ Cardinality(ResultsBetween(i, j)) = 3
             /\ \A k \in ResultsBetween(i, j) :
                   log[k].res # "text" /\ log[k].lang = source_lang

\* C6 witness: a finished run that made the second call.
C6_Witness ==
    /\ pc = "done"
    /\ Cardinality(Idx("get_captions")) = 2
    /\ result = "returned"

\* Scenario D: every provider came back without text for "fr" and a
\* provider gave text for "en"
ScenarioD ==
    /\ ~use_local
    /\ source_lang = "fr"
    /\ Cardinality({ k \in Idx("result") : log[k].lang = "fr" }) = 3
    /\ \A k \in Idx("result") : log[k].lang = "fr" => log[k].res # "text"
    /\ \E k \in Idx("result") : log[k].lang = "en" /\ log[k].res = "text"

\* C7: in Scenario D the run writes its files and names them by "en".
C7_FallbackRecordsEn ==
    (pc = "done" /\ ScenarioD) =>
        /\ result = "returned"
        /\ files # {}
        /\ actual_source = "en"
        /\ \A f \in files : f.lang = "en"

\* C7 witness: a finished run in Scenario D.
C7_Witness == pc = "done" /\ ScenarioD /\ [ext |-> "srt", lang |-> "en"] \in files

\* both download paths were tried and neither gave a valid file
DownloadFailed ==
    \E i, j \in Idx("download_audio") :
        /\ log[i].fn = "cli" /\ log[i].res = "fail"
        /\ log[j].fn = "api" /\ log[j].res = "fail"

\* C8: when the download failed entirely, no transcription step is run and
\* the run ends empty, without raising.
C8_FailedDownloadEndsEmpty ==
    (pc = "done" /\ DownloadFailed) =>
        /\ Idx("step") = {}
        /\ ~Truthy(tl_srt)
        /\ files = {}
        /\ result = EndedEmpty

\* C9: no provider looks up "en" for a run that asked for another language
\* before all three providers came back without text for that language.
C9_NoEnglishBeforeExhaustion ==
    source_lang # "en" =>
        \A j \in Idx("lookup") :
            log[j].lang = "en" =>
                LET rs == { k \in Idx("result") : k < j /\ log[k].lang = source_lang }
                IN Cardinality(rs) = 3 /\ \A k \in rs : log[k].res # "text"

StepRank(fn) ==
    CASE fn = "transcribe_faster" -> 1
      [] fn = "transcribe_whisper" -> 2
      [] OTHER -> 3

\* a step result that carries segments
Produced(res) == res \in {"segments", "text"}

\* C10: after a successful download the steps start in the order fast
\* backend, reference backend, remote lookup, each at most once; a step
\* starts only after every earlier step returned without segments; and
\* transcribe_local returns empty only if no step produced segments.
C10_StepOrder ==
    audio_path # "" =>
        /\ \A i, j \in Idx("step") :
              i < j =>
                 /\ StepRank(log[i].fn) < StepRank(log[j].fn)
                 /\ \E k \in Idx("step_result") :
                       /\ i < k /\ k < j
                       /\ log[k].fn = log[i].fn
                       /\ ~Produced(log[k].res)
        /\ \A i, j \in Idx("step_result") :
              i < j => log[i].fn # log[j].fn
        /\ (pc = "local_returned" /\ ~Truthy(tl_srt)) =>
              \A k \in Idx("step_result") : ~Produced(log[k].res)

\* C10 witness: all three steps ran, the first two without segments.
C10_Witness ==
    /\ pc = "local_returned"
    /\ audio_path # ""
    /\ Truthy(tl_srt)
    /\ \E i, j, k \in Idx("step_result") :
          /\ log[i].fn = "transcribe_faster" /\ log[i].res = "none"
          /\ log[j].fn = "transcribe_whisper" /\ log[j].res = "oom"
          /\ log[k].fn = "get_youtube_api_transcript" /\ log[k].res = "text"

\* a step result that stands for an exception raised inside the step (a
\* failed model load, a failed backend run, CUDA out of memory)
Failed(k) == log[k].ev = "step_result" /\ log[k].res \in {"error", "oom"}

\* the step fn was entered after log entry k
AttemptedAfter(fn, k) == \E j \in Idx("step") : j > k /\ log[j].fn = fn

\* a step after log entry k returned segments
ProducedAfter(k) == \E j \in Idx("step_result") : j > k /\ Produced(log[j].res)

\* the positions at which the reference backend is about to run or running
AtWhisper == pc \in {"transcribe_whisper", "_get_whisper_model", "whisper_run"}

\* C11: an exception inside a transcription step does not end the run and
\* does not stop the later steps: after a failing fast backend the reference
\* backend, when installed, is run next; after a failing backend the remote
\* lookup is run unless a later step returned segments; and the run goes on
\* to the return of transcribe_local.
C11_StepFailureContained ==
    \A k \in Idx("step_result") :
        Failed(k) =>
            /\ pc \in {"transcribe_whisper", "_get_whisper_model", "whisper_run",
                       "remote_lookup", "cleanup", "local_returned", "have_srt", "done"}
            /\ (result = "raised" => Idx("validate_and_adjust_timings") # {})
            /\ ((log[k].fn = "transcribe_faster" /\ has.whisper) =>
                  (pc = "transcribe_whisper" \/ AttemptedAfter("transcribe_whisper", k)))
            /\ \/ AtWhisper
               \/ pc = "remote_lookup"
               \/ AttemptedAfter("get_youtube_api_transcript", k)
               \/ ProducedAfter(k)

\* C11 witness: the fast backend ran out of memory while loading, the
\* reference backend raised while transcribing, the remote lookup gave the
\* transcript that transcribe_local returned.
C11_Witness ==
    /\ pc = "local_returned"
    /\ Truthy(tl_srt)
    /\ tl_srt.by = "get_youtube_api_transcript"
    /\ \E i, j \in Idx("step_result") :
          /\ i < j
          /\ log[i].fn = "transcribe_faster" /\ log[i].res = "oom"
          /\ log[j].fn = "transcribe_whisper" /\ log[j].res = "error"

\* the reachability check failed or the identifier was invalid
GateFailed ==
    \E i \in 1..Len(log) :
        \/ log[i].ev = "check_youtube_access" /\ log[i].res = "fail"
        \/ log[i].ev = "extract_video_id" /\ log[i].res = "invalid"

\* C12: a run whose reachability check failed, or whose identifier was
\* invalid, has ended empty: no file, and nothing called but the two gates
\* (no provider, no download, no transcription, no normalisation, no write);
\* and the identifier is extracted only after the reachability check passed.
C12_FailsClosed ==
    /\ GateFailed =>
          /\ pc = "done"
          /\ result = EndedEmpty
          /\ files = {}
          /\ \A i \in 1..Len(log) :
                log[i].ev \in {"check_youtube_access", "extract_video_id"}
    /\ \A j \in Idx("extract_video_id") :
          \E i \in Idx("check_youtube_access") : i < j /\ log[i].res = "ok"

\* C12 witness: process_video returned [] at the second gate.
C12_Witness ==
    /\ pc = "done"
    /\ entry = "app"
    /\ result = "returned_empty"
    /\ files = {}
    /\ log = <<Ev("check_youtube_access", "", "", "ok"),
               Ev("extract_video_id", "", "", "invalid")>>

\* C13: transcribe_local is called only after the caption resolver was
\* tried and every provider call made before it came back without text.
C13_CaptionsBeforeLocal ==
    \A j \in Idx("transcribe_local") :
        /\ \E g \in Idx("get_captions") : g < j
        /\ \A k \in Idx("result") : k < j => log[k].res # "text"

\* C15: process_video does not raise, whatever the providers, the download
\* tool, the backends and the remote lookup do: a run ends by returning its
\* files or by returning empty.
C15_NeverRaises ==
    (entry = "app" /\ pc = "done") => result \in {"returned", "returned_empty"}

\* C16: a CLI download that gave no file, the case of no yt-dlp binary
\* included, is followed by the Python-API download.
C16_FallsThroughToApi ==
    \A i \in Idx("download_audio") :
        (log[i].fn = "cli" /\ log[i].res # "ok") =>
            \/ pc = "download_audio_api"
            \/ \E j \in Idx("download_audio") : j > i /\ log[j].fn = "api"

\* C17: when the run has ended, the directory made by mkdtemp in
\* download_audio is no longer on disk.
C17_TempDirRemoved ==
    pc = "done" => ~temp_dir

\* the provider called after fn by the loop of get_captions
NextProvider(fn) ==
    IF fn = "fetch_via_transcript_api" THEN "fetch_via_ytdlp" ELSE "fetch_via_pytube"

\* C21: a provider call that raised does not end the run; like an empty
\* result it is followed by the call of the next provider for the same
\* language or, after the last provider, by the return of get_captions; and
\* get_captions returns empty when no provider gave text.
C21_ProviderErrorIsEmpty ==
    /\ \A k \in Idx("result") :
          log[k].res \in {"raise", "empty"} =>
             /\ (pc \in {"get_captions", "captions_returned"} => result = "running")
             /\ IF log[k].fn = "fetch_via_pytube"
                THEN k = Len(log) =>
                        /\ pc # "get_captions"
                        /\ (pc = "captions_returned" => gc_ret = EmptySrt)
                ELSE IF k = Len(log)
                     THEN pc = "get_captions" /\ Providers[gc_i] = NextProvider(log[k].fn)
                     ELSE log[k + 1] = Ev("call", NextProvider(log[k].fn), log[k].lang, "")
    /\ (result = "raised" => Idx("get_captions") = {})

\* C21 witness: all three providers raised and get_captions returned "".
C21_Witness ==
    /\ pc = "captions_returned"
    /\ gc_pass = 1
    /\ gc_ret = EmptySrt
    /\ Cardinality(Idx("result")) = 3
    /\ \A k \in Idx("result") : log[k].res = "raise"

\* C22: a run that returns captions records "en" exactly when the text it
\* returns is English.
C22_RecordedLanguage ==
    (pc = "done" /\ result = "returned" /\ ~use_local) =>
        (actual_source = "en" <=> srt_content.lang = "en")

\* the last entry of the log is the result res of a step
JustReturned(res) ==
    /\ Len(log) > 0
    /\ log[Len(log)].ev = "step_result"
    /\ log[Len(log)].res = res

\* C23: when transcribe_faster or transcribe_whisper has just returned
\* segments, the cache of that backend does not hold the model it used.
C23_ReleasedOnSuccess ==
    JustReturned("segments") =>
        /\ Truthy(tl_srt)
        /\ (log[Len(log)].fn = "transcribe_faster" => model_size \notin faster_models)
        /\ (log[Len(log)].fn = "transcribe_whisper" => model_size \notin whisper_models)

\* C23 witness: the fast backend has just returned segments, before the
\* cleanup of transcribe_local.
C23_Witness ==
    /\ pc = "cleanup"
    /\ JustReturned("segments")
    /\ log[Len(log)].fn = "transcribe_faster"
    /\ tl_srt.by = "transcribe_faster"
    /\ faster_models = {}

\* C24: when a backend step has just returned after running out of memory,
\* both caches are empty, the step returned "" and the call is at its next
\* step: the reference backend (if installed) after the fast one, the
\* remote lookup otherwise.
C24_OomClearsCache ==
    JustReturned("oom") =>
        /\ whisper_models = {}
        /\ faster_models = {}
        /\ ~Truthy(tl_srt)
        /\ result = "running"
        /\ IF log[Len(log)].fn = "transcribe_faster" /\ has.whisper
           THEN pc = "transcribe_whisper"
           ELSE pc = "remote_lookup"

\* C24 witness: the fast backend returned no segments and left its model
\* cached; the reference backend then ran out of memory while transcribing.
C24_Witness ==
    /\ JustReturned("oom")
    /\ log[Len(log)].fn = "transcribe_whisper"
    /\ pc = "remote_lookup"
    /\ \E i \in Idx("step_result") :
          log[i].fn = "transcribe_faster" /\ log[i].res = "none"
    /\ whisper_models = {} /\ faster_models = {}

\* the download_audio entries of the log for the path p
Downloads(p) == { i \in Idx("download_audio") : log[i].fn = p }

\* a file that exists, is at least 1000 bytes long and has an audio extension
ValidAudio(f) ==
    f.exists /\ f.size >= 1000 /\ f.ext \in {".mp3", ".wav", ".m4a", ".flac"}

C26_AudioFileRemoved ==
    (audio_path # "" /\ pc \in {"local_returned", "have_srt", "done"}) =>
        /\ Idx("cleanup") # {}
        /\ \/ ~audio_file.exists
           \/ \E c \in Idx("cleanup") : log[c].res = "failed"
        /\ \A c \in Idx("cleanup") : log[c].res = "removed" => ~audio_file.exists
        /\ result # "raised"

\* C26 witness: every step failed, one of them by raising, and the file of
\* the CLI download was removed before the return.
C26_Witness ==
    /\ pc = "local_returned"
    /\ audio_path = "cli"
    /\ ~Truthy(tl_srt)
    /\ \E k \in Idx("step_result") : log[k].res = "error"
    /\ \E c \in Idx("cleanup") : log[c].res = "removed"
    /\ audio_file = NoFile

\* the run is past both gates
GatesPassed == \E i \in Idx("extract_video_id") : log[i].res = "ok"

\* the run is past the point where the caption resolver is called
PastResolver == GatesPassed /\ pc \in {"transcribe_local", "have_srt", "done"}

\* C27: a run calls caption providers only if use_local_transcription is
\* false, and then it does call them; it calls transcribe_local only if the
\* flag is true; no run calls both.
C27_MutuallyExclusive ==
    /\ (Idx("get_captions") # {} \/ Idx("call") # {}) => ~use_local
    /\ Idx("transcribe_local") # {} => use_local
    /\ ~(Idx("call") # {} /\ Idx("transcribe_local") # {})
    /\ (PastResolver /\ ~use_local) => Idx("call") # {}
    /\ (PastResolver /\ use_local) => Idx("call") = {}

\* C27 witness: a run with the flag set ended with the files of a local
\* transcription and called no provider.
C27_Witness ==
    /\ pc = "done"
    /\ use_local
    /\ result = "returned"
    /\ Idx("transcribe_local") # {}
    /\ Idx("call") = {}
    /\ srt_content.by = "transcribe_whisper"

\* C28: whenever no transcribe_local call is in progress, _whisper_models
\* and _faster_models are both empty.
C28_CachesEmptyBetweenCalls ==
    ~InTranscribeLocal => (whisper_models = {} /\ faster_models = {})

\* C28 witness: transcribe_local has returned from a call in which both
\* backends loaded their model and returned no segments, which leaves the
\* models cached until the final clean_model_cache.
C28_Witness ==
    /\ pc = "local_returned"
    /\ whisper_models = {} /\ faster_models = {}
    /\ \E i, j \in Idx("step_result") :
          /\ log[i].fn = "transcribe_faster" /\ log[i].res = "none"
          /\ log[j].fn = "transcribe_whisper" /\ log[j].res = "none"
    /\ Idx("cleanup") # {}

\* transcribe_local was called with a model size outside the valid set
InvalidSizeCall ==
    /\ Idx("transcribe_local") # {}
    /\ model_size # ""
    /\ model_size \notin {"tiny", "base", "small", "medium", "large",
                          "large-v1", "large-v2", "large-v3"}

\* C29: a transcribe_local call with an invalid model size has returned ""
\* at once: no download, no step (backend or remote lookup), no cleanup,
\* both caches as they were (empty), and the run goes on without raising and
\* ends empty.
C29_InvalidSizeReturnsEmpty ==
    InvalidSizeCall =>
        /\ pc \in {"local_returned", "have_srt", "done"}
        /\ ~Truthy(tl_srt)
        /\ log[Len(log)].ev = "transcribe_local"
        /\ Idx("download_audio") = {} /\ Idx("step") = {} /\ Idx("step_result") = {}
        /\ audio_path = "" /\ ~temp_dir
        /\ whisper_models = {} /\ faster_models = {}
        /\ result # "raised"
        /\ (pc = "done" => (result = EndedEmpty /\ files = {}))

\* C29 witness: process_video was given the size "huge" and returned [].
C29_Witness ==
    /\ pc = "done"
    /\ entry = "app"
    /\ model_size = "huge"
    /\ result = "returned_empty"
    /\ log[Len(log)] = Ev("transcribe_local", "", source_lang, "")

====
